---- MODULE Spec2Model ----
(***************************************************************************)
(* Model of the drawing relay of drawing-server/server.js: the room        *)
(* registry `rooms` (a Map from room id to a Set of sockets), the          *)
(* per-connection closure variables currentRoom and clientId, and the      *)
(* handlers the server attaches to every accepted socket ('message',       *)
(* 'close', 'error').  Node runs one handler at a time to completion, so   *)
(* every handler is one atomic action.                                     *)
(***************************************************************************)
EXTENDS Integers, Sequences, FiniteSets, TLC

(* ------------------------------------------------------------------ *)
(* Bounds of the model                                                 *)
(* ------------------------------------------------------------------ *)

\* Number of sockets the server accepts during a run.
NumConns == 3

\* Number of join messages the server handles during a run.  The other
\* messages cannot add a socket to the registry and are not counted.
MaxJoins == 3

\* Number of sockets whose transport stops being open during a run.
MaxCloses == 1

Conns == 1..NumConns

(* ------------------------------------------------------------------ *)
(* Values                                                              *)
(* ------------------------------------------------------------------ *)

\* JavaScript null, the initial value of currentRoom and clientId.
Null == "<null>"

\* Room identifiers a client may put in a join.  They are caller-supplied
\* strings, so the empty string is one of them.
RoomIds == {"", "R1", "R2"}

\* The message types whose case relays a payload to the room.
RelayTypes == {"draw", "strokeEnd", "fill", "clear", "undo"}

\* The fields each relay case copies from the inbound object into the
\* object it sends (drawData, endData, fillData, clearData, undoData).
RelayFields(type) ==
    CASE type = "draw"      -> {"x", "y", "prevX", "prevY", "color", "lineWidth", "drawerId"}
      [] type = "strokeEnd" -> {"drawerId"}
      [] type = "fill"      -> {"x", "y", "color", "drawerId"}
      [] type = "clear"     -> {"drawerId"}
      [] type = "undo"      -> {"drawerId"}

\* ws readyState values; "NONE" stands for a socket the server has not
\* accepted yet (no 'connection' event so far).
ReadyStates == {"NONE", "OPEN", "CLOSING", "CLOSED"}

(* ------------------------------------------------------------------ *)
(* Inbound messages                                                    *)
(* ------------------------------------------------------------------ *)

\* A raw inbound message is JSON text.  It is represented by what
\* JSON.parse makes of it: text that does not parse, the JSON value null,
\* or an object given as a record of its fields.
BadText == [json |-> "unparseable"]
NullText == [json |-> "null"]
ObjText(obj) == [json |-> "object", value |-> obj]

\* The client identifier a join for room r carries.
ClientOf(r) == IF r = "R2" THEN "c2" ELSE "c1"

JoinObjs == {[type |-> "join", roomId |-> r, clientId |-> ClientOf(r)] : r \in RoomIds}

DrawObjs ==
    { [type |-> "draw", x |-> 10, y |-> 20, prevX |-> 5, prevY |-> 15,
       color |-> "#000000", lineWidth |-> 2, drawerId |-> "c1"] }

OtherRelayObjs ==
    { [type |-> "strokeEnd", drawerId |-> "c1"],
      \* color missing, a field the case does not copy present
      [type |-> "fill", x |-> 1, y |-> 2, drawerId |-> "c2", roomId |-> "R2"],
      [type |-> "clear", drawerId |-> "c2"],
      [type |-> "undo", drawerId |-> "c1"] }

RelayObjs == DrawObjs \cup OtherRelayObjs

LeaveObjs == {[type |-> "leave"]}

\* Objects no case of the switch matches: an unknown type, no type at all.
UnknownObjs == {[type |-> "chat", roomId |-> "R1"], [roomId |-> "R1"]}

\* The messages a client sends, by what the server makes of them.
BadMsgs == {BadText, NullText}
JoinMsgs == {ObjText(o) : o \in JoinObjs}
RelayMsgs == {ObjText(o) : o \in RelayObjs}
LeaveMsgs == {ObjText(o) : o \in LeaveObjs}
UnknownMsgs == {ObjText(o) : o \in UnknownObjs}

Inbound == BadMsgs \cup JoinMsgs \cup RelayMsgs \cup LeaveMsgs \cup UnknownMsgs

\* JSON.parse(message) throws on text that is not JSON.
ParseThrows(message) == message.json = "unparseable"

\* data.type: reading a property of null throws a TypeError, a property
\* the object does not have reads as undefined (no case matches).
TypeThrows(message) == message.json = "null"
Undefined == "<undefined>"
Field(data, f) == IF f \in DOMAIN data THEN data[f] ELSE Undefined
TypeOf(message) == Field(message.value, "type")

(* ------------------------------------------------------------------ *)
(* State                                                               *)
(* ------------------------------------------------------------------ *)

VARIABLES
    rooms,        \* the Map: a function from the room ids that are keys to
                  \* the Set of sockets, kept as the sequence of its members
                  \* in insertion order (the order forEach visits them)
    currentRoom,  \* per socket: the closure variable currentRoom
    clientId,     \* per socket: the closure variable clientId
    readyState,   \* per socket: ws.readyState
    sent,         \* the send() calls that the last handler made and that
                  \* returned, in order: <<[to, payload], ...>>
    logged,       \* whether the last handler reached its catch block
    ev,           \* the event the last handler ran for
    joined,       \* history: per socket, the room of its latest join if it
                  \* has not sent leave or closed since, else Null
    everJoined,   \* history: per socket, whether it ever sent a join
    njoins,       \* the number of join messages handled so far
    joinKind      \* history: per socket, how its latest join came about:
                  \* "again" for a room it was already in, else "back" if
                  \* it had joined and sent leave before, else "fresh";
                  \* "none" before the first join and after leave or close

vars == <<rooms, currentRoom, clientId, readyState, sent, logged, ev, joined, everJoined, njoins, joinKind>>

Range(s) == {s[i] : i \in 1..Len(s)}

\* rooms.has(r)
Has(m, r) == r \in DOMAIN m

\* JavaScript truthiness of the value held by currentRoom: null,
\* undefined and the empty string are falsy.
Truthy(v) == v # Null /\ v # Undefined /\ v # ""

\* Set.prototype.add: an element already present keeps its place.
\* An add that does not look for the element first.
SetAddDup(s, x) == Append(s, x)

SetAdd(s, x) == IF x \in Range(s) THEN s ELSE Append(s, x)

\* Set.prototype.delete
SetDelete(s, x) == SelectSeq(s, LAMBDA y : y # x)

\* Map.prototype.set / Map.prototype.delete
MapSet(m, k, v) == [r \in DOMAIN m \cup {k} |-> IF r = k THEN v ELSE m[r]]
MapDelete(m, k) == [r \in DOMAIN m \ {k} |-> m[r]]

\* The members of room r as the registry holds them (none if no such key).
Members(m, r) == IF Has(m, r) THEN Range(m[r]) ELSE {}

(* ------------------------------------------------------------------ *)
(* The pieces of the handlers                                          *)
(* ------------------------------------------------------------------ *)

\* client.send(text): whether the call raises.  `fails` is the set of
\* sockets whose send raises during the handler that is running.
SendThrows(client, fails) == client \in fails

\* A relay case that forwards the inbound object as it came.
RelayPayloadAll(data) == data

\* JSON.stringify of the object a relay case builds: the type and the
\* listed fields read from data; a field that reads as undefined is left
\* out of the text.
RelayPayload(data) ==
    [f \in {"type"} \cup (RelayFields(data.type) \cap DOMAIN data) |-> data[f]]

\* { type: 'joined', roomId: currentRoom }
JoinedPayload(room) == [type |-> "joined", roomId |-> room]

\* The test without its second conjunct: a socket that is not open is a
\* recipient too.
IsRecipientAnyState(client, ws, rs) == client # ws

\* The test without its first conjunct: the sender is a recipient too.
IsRecipientEcho(client, ws, rs) == rs[client] = "OPEN"

\* client !== ws && client.readyState === WebSocket.OPEN, the test the
\* forEach callback makes before it sends.
IsRecipient(client, ws, rs) == client # ws /\ rs[client] = "OPEN"

\* clients.forEach(client => { if (...) client.send(payload) }), from the
\* i-th member on: the sends made, in order, and whether a send raised
\* (the exception leaves the loop and is caught by the handler's catch).
RECURSIVE ForEachFrom(_, _, _, _, _, _)
ForEachFrom(clients, i, ws, payload, rs, fails) ==
    IF i > Len(clients)
    THEN [sent |-> <<>>, threw |-> FALSE]
    ELSE LET client == clients[i]
             rest == ForEachFrom(clients, i + 1, ws, payload, rs, fails)
         IN  IF IsRecipient(client, ws, rs)
             THEN IF SendThrows(client, fails)
                  THEN [sent |-> <<>>, threw |-> TRUE]
                  ELSE [sent |-> <<[to |-> client, payload |-> payload]>> \o rest.sent,
                        threw |-> rest.threw]
             ELSE rest

ForEach(clients, ws, payload, rs, fails) == ForEachFrom(clients, 1, ws, payload, rs, fails)

\* A relay case without its guard.
RelayGuardNone(m, cur) == TRUE

\* if (currentRoom && rooms.has(currentRoom)), the guard of the relay
\* cases.
RelayGuard(m, cur) == Truthy(cur) /\ Has(m, cur)

\* The body of a relay case for socket ws: nothing when the guard is
\* false; otherwise the forEach over rooms.get(currentRoom), which raises
\* a TypeError when the Map has no such key.
RelayCase(m, cur, ws, data, rs, fails) ==
    IF RelayGuard(m, cur)
    THEN IF Has(m, cur)
         THEN ForEach(m[cur], ws, RelayPayload(data), rs, fails)
         ELSE [sent |-> <<>>, threw |-> TRUE]
    ELSE [sent |-> <<>>, threw |-> FALSE]

\* case 'join' that creates the room but does not add the socket to a
\* room that exists already.
JoinCaseNoAdd(m, r, ws) ==
    IF Has(m, r) THEN m ELSE MapSet(m, r, <<ws>>)

\* case 'join' that first takes the socket out of every other room.
JoinCaseMigrate(m, r, ws) ==
    LET others == {q \in DOMAIN m : q # r /\ SetDelete(m[q], ws) = <<>>}
        m0 == [q \in DOMAIN m \ others |-> IF q = r THEN m[q] ELSE SetDelete(m[q], ws)]
        m1 == IF Has(m0, r) THEN m0 ELSE MapSet(m0, r, <<>>)
    IN  MapSet(m1, r, SetAdd(m1[r], ws))

\* The registry after case 'join' for room r: the key is created with an
\* empty Set if absent, then ws is added to the Set.
JoinCase(m, r, ws) ==
    LET m1 == IF Has(m, r) THEN m ELSE MapSet(m, r, <<>>)
    IN  MapSet(m1, r, SetAdd(m1[r], ws))

\* case 'leave' without the clean-up of the room it empties.
LeaveCaseKeepsEmpty(m, cur, ws) ==
    IF Truthy(cur) /\ Has(m, cur)
    THEN MapSet(m, cur, SetDelete(m[cur], ws))
    ELSE m

\* The registry after case 'leave': under the guard, ws is deleted from
\* the Set of currentRoom and the key is deleted if the Set is now empty.
\* case 'leave' that deletes the room of the socket whoever is in it.
LeaveCaseDropsRoom(m, cur, ws) ==
    IF Truthy(cur) /\ Has(m, cur) THEN MapDelete(m, cur) ELSE m

LeaveCase(m, cur, ws) ==
    IF Truthy(cur) /\ Has(m, cur)
    THEN LET m1 == MapSet(m, cur, SetDelete(m[cur], ws))
         IN  IF Len(m1[cur]) = 0 THEN MapDelete(m1, cur) ELSE m1
    ELSE m

\* A 'close' handler that drops the whole room of the socket.
CloseHandlerDropsRoom(m, cur, ws) ==
    IF Truthy(cur) /\ Has(m, cur) THEN MapDelete(m, cur) ELSE m

\* The registry after the 'close' handler: the same removal.
CloseHandler(m, cur, ws) ==
    IF Truthy(cur) /\ Has(m, cur)
    THEN LET m1 == MapSet(m, cur, SetDelete(m[cur], ws))
         IN  IF Len(m1[cur]) = 0 THEN MapDelete(m1, cur) ELSE m1
    ELSE m

(* ------------------------------------------------------------------ *)
(* Initial state and actions                                           *)
(* ------------------------------------------------------------------ *)

\* The server has started: the Map is empty and no socket is accepted.
Init ==
    /\ rooms = <<>>
    /\ currentRoom = [c \in Conns |-> Null]
    /\ clientId = [c \in Conns |-> Null]
    /\ readyState = [c \in Conns |-> "NONE"]
    /\ sent = <<>>
    /\ logged = FALSE
    /\ ev = [kind |-> "start"]
    /\ joined = [c \in Conns |-> Null]
    /\ everJoined = [c \in Conns |-> FALSE]
    /\ njoins = 0
    /\ joinKind = [c \in Conns |-> "none"]

\* wss.on('connection'): the socket is open, its closure variables are
\* null.  Sockets are numbered in the order the server accepts them.
Connection(ws) ==
    /\ readyState[ws] = "NONE"
    /\ \A c \in Conns : c < ws => readyState[c] # "NONE"
    /\ readyState' = [readyState EXCEPT ![ws] = "OPEN"]
    /\ currentRoom' = [currentRoom EXCEPT ![ws] = Null]
    /\ clientId' = [clientId EXCEPT ![ws] = Null]
    /\ sent' = <<>>
    /\ logged' = FALSE
    /\ ev' = [kind |-> "connection", ws |-> ws]
    /\ UNCHANGED <<rooms, joined, everJoined, njoins, joinKind>>

\* A 'message' event is delivered to an open socket; `fails` is the set
\* of sockets whose send() raises while its handler runs.
Receives(ws, message, fails) ==
    /\ readyState[ws] = "OPEN"
    /\ message \in Inbound
    /\ ev' = [kind |-> "message", ws |-> ws, message |-> message, fails |-> fails]

\* A catch block that also takes the socket out of its room.
MalformedEvicts(ws, message) ==
    /\ Receives(ws, message, {})
    /\ ParseThrows(message) \/ TypeThrows(message)
    /\ sent' = <<>>
    /\ logged' = TRUE
    /\ rooms' = LeaveCase(rooms, currentRoom[ws], ws)
    /\ UNCHANGED <<currentRoom, clientId, readyState, joined, everJoined, njoins, joinKind>>

\* JSON.parse or data.type raises: the catch block logs, nothing else
\* happens.
Malformed(ws, message) ==
    /\ Receives(ws, message, {})
    /\ ParseThrows(message) \/ TypeThrows(message)
    /\ sent' = <<>>
    /\ logged' = TRUE
    /\ UNCHANGED <<rooms, currentRoom, clientId, readyState, joined, everJoined, njoins, joinKind>>

\* case 'join'
Join(ws, message, fails) ==
    /\ Receives(ws, message, fails)
    /\ ~ParseThrows(message) /\ ~TypeThrows(message)
    /\ TypeOf(message) = "join"
    /\ njoins < MaxJoins
    /\ njoins' = njoins + 1
    /\ LET data == message.value
           room == Field(data, "roomId")
       IN  /\ currentRoom' = [currentRoom EXCEPT ![ws] = room]
           /\ clientId' = [clientId EXCEPT ![ws] = Field(data, "clientId")]
           /\ rooms' = JoinCase(rooms, room, ws)
           /\ IF SendThrows(ws, fails)
              THEN sent' = <<>> /\ logged' = TRUE
              ELSE /\ sent' = <<[to |-> ws, payload |-> JoinedPayload(room)]>>
                   /\ logged' = FALSE
           /\ joined' = [joined EXCEPT ![ws] = room]
           /\ everJoined' = [everJoined EXCEPT ![ws] = TRUE]
           /\ joinKind' = [joinKind EXCEPT ![ws] =
                  IF ws \in Members(rooms, room) THEN "again"
                  ELSE IF everJoined[ws] /\ joined[ws] = Null THEN "back"
                  ELSE "fresh"]
    /\ UNCHANGED readyState

\* A relay case that takes out of the room every member it could not
\* send to: the ones that are not open and the ones whose send raised.
RelayEvicts(ws, message, fails) ==
    /\ Receives(ws, message, fails)
    /\ ~ParseThrows(message) /\ ~TypeThrows(message)
    /\ TypeOf(message) \in RelayTypes
    /\ LET cur == currentRoom[ws]
           out == RelayCase(rooms, cur, ws, message.value, readyState, fails)
           bad == {c \in Members(rooms, cur) : c # ws /\ (readyState[c] # "OPEN" \/ c \in fails)}
       IN  /\ sent' = out.sent
           /\ logged' = out.threw
           /\ rooms' = IF RelayGuard(rooms, cur)
                       THEN [rooms EXCEPT ![cur] = SelectSeq(rooms[cur], LAMBDA c : c \notin bad)]
                       ELSE rooms
    /\ UNCHANGED <<currentRoom, clientId, readyState, joined, everJoined, njoins, joinKind>>

\* case 'draw', 'strokeEnd', 'fill', 'clear', 'undo'
Relay(ws, message, fails) ==
    /\ Receives(ws, message, fails)
    /\ ~ParseThrows(message) /\ ~TypeThrows(message)
    /\ TypeOf(message) \in RelayTypes
    /\ LET out == RelayCase(rooms, currentRoom[ws], ws, message.value, readyState, fails)
       IN  /\ sent' = out.sent
           /\ logged' = out.threw
    /\ UNCHANGED <<rooms, currentRoom, clientId, readyState, joined, everJoined, njoins, joinKind>>

\* case 'leave'
Leave(ws, message) ==
    /\ Receives(ws, message, {})
    /\ ~ParseThrows(message) /\ ~TypeThrows(message)
    /\ TypeOf(message) = "leave"
    /\ rooms' = LeaveCase(rooms, currentRoom[ws], ws)
    /\ sent' = <<>>
    /\ logged' = FALSE
    /\ joined' = [joined EXCEPT ![ws] = Null]
    /\ joinKind' = [joinKind EXCEPT ![ws] = "none"]
    /\ UNCHANGED <<currentRoom, clientId, readyState, everJoined, njoins>>

\* A switch whose default case answers the sender with an error message.
IgnoredReplies(ws, message) ==
    /\ Receives(ws, message, {})
    /\ ~ParseThrows(message) /\ ~TypeThrows(message)
    /\ TypeOf(message) \notin RelayTypes \cup {"join", "leave"}
    /\ sent' = <<[to |-> ws, payload |-> [type |-> "error"]]>>
    /\ logged' = FALSE
    /\ UNCHANGED <<rooms, currentRoom, clientId, readyState, joined, everJoined, njoins, joinKind>>

\* Any other data.type: no case of the switch matches.
Ignored(ws, message) ==
    /\ Receives(ws, message, {})
    /\ ~ParseThrows(message) /\ ~TypeThrows(message)
    /\ TypeOf(message) \notin RelayTypes \cup {"join", "leave"}
    /\ sent' = <<>>
    /\ logged' = FALSE
    /\ UNCHANGED <<rooms, currentRoom, clientId, readyState, joined, everJoined, njoins, joinKind>>

\* The sockets whose transport is no longer open, and whether one more
\* may stop being open.
NotOpen == {c \in Conns : readyState[c] \in {"CLOSING", "CLOSED"}}
MayClose(ws) == ws \in NotOpen \/ Cardinality(NotOpen) < MaxCloses

\* The transport starts closing (a close frame arrived, the peer ended
\* the stream): readyState is CLOSING and no handler of the server runs.
Closing(ws) ==
    /\ readyState[ws] = "OPEN"
    /\ MayClose(ws)
    /\ readyState' = [readyState EXCEPT ![ws] = "CLOSING"]
    /\ sent' = <<>>
    /\ logged' = FALSE
    /\ ev' = [kind |-> "closing", ws |-> ws]
    /\ UNCHANGED <<rooms, currentRoom, clientId, joined, everJoined, njoins, joinKind>>

\* ws.on('close'): the socket is closed and the handler runs.
Close(ws) ==
    /\ readyState[ws] \in {"OPEN", "CLOSING"}
    /\ MayClose(ws)
    /\ readyState' = [readyState EXCEPT ![ws] = "CLOSED"]
    /\ rooms' = CloseHandler(rooms, currentRoom[ws], ws)
    /\ sent' = <<>>
    /\ logged' = FALSE
    /\ ev' = [kind |-> "close", ws |-> ws]
    /\ joined' = [joined EXCEPT ![ws] = Null]
    /\ joinKind' = [joinKind EXCEPT ![ws] = "none"]
    /\ UNCHANGED <<currentRoom, clientId, everJoined, njoins>>

\* ws.on('error'): the library has put the socket in CLOSING before it
\* emits 'error'; the handler only logs.
Error(ws) ==
    /\ readyState[ws] = "OPEN"
    /\ MayClose(ws)
    /\ readyState' = [readyState EXCEPT ![ws] = "CLOSING"]
    /\ sent' = <<>>
    /\ logged' = TRUE
    /\ ev' = [kind |-> "error", ws |-> ws]
    /\ UNCHANGED <<rooms, currentRoom, clientId, joined, everJoined, njoins, joinKind>>

\* The relay as it runs on the ws library: send() on a socket whose
\* readyState is OPEN does not raise (a failed write is reported later,
\* through the socket's 'error' and 'close' events).
Next ==
    \E ws \in Conns :
        \/ Connection(ws)
        \/ \E message \in BadMsgs : Malformed(ws, message)
        \/ \E message \in JoinMsgs : Join(ws, message, {})
        \/ \E message \in RelayMsgs : Relay(ws, message, {})
        \/ \E message \in LeaveMsgs : Leave(ws, message)
        \/ \E message \in UnknownMsgs : Ignored(ws, message)
        \/ Closing(ws)
        \/ Close(ws)
        \/ Error(ws)

Spec == Init /\ [][Next]_vars

\* The sets of sockets whose send() may raise during one handler: at
\* most one socket, and one the handler calls send() on (for the others
\* the choice changes nothing).
FailSets(targets) == {{}} \cup {{c} : c \in targets}

\* The sockets the handler of a join / of a relay-type message from ws
\* calls send() on when no send raises.
JoinTargets(ws) == {ws}
RelayTargets(ws) ==
    IF RelayGuard(rooms, currentRoom[ws])
    THEN {c \in Range(rooms[currentRoom[ws]]) : IsRecipient(c, ws, readyState)}
    ELSE {}

\* The same relay with a transport whose send() may raise.
NextSendFail ==
    \E ws \in Conns :
        \/ Connection(ws)
        \/ \E message \in BadMsgs : Malformed(ws, message)
        \/ \E message \in JoinMsgs, fails \in FailSets(JoinTargets(ws)) : Join(ws, message, fails)
        \/ \E message \in RelayMsgs, fails \in FailSets(RelayTargets(ws)) : Relay(ws, message, fails)
        \/ \E message \in LeaveMsgs : Leave(ws, message)
        \/ \E message \in UnknownMsgs : Ignored(ws, message)
        \/ Closing(ws)
        \/ Close(ws)
        \/ Error(ws)

SpecSendFail == Init /\ [][NextSendFail]_vars

(* ------------------------------------------------------------------ *)
(* Vocabulary of the properties                                        *)
(* ------------------------------------------------------------------ *)

\* The last handler ran for a message that parsed to an object.
IsObjectEv == ev.kind = "message" /\ ev.message.json = "object"

\* The last handler ran for a relay-type message / a leave message.
IsRelayEv == IsObjectEv /\ TypeOf(ev.message) \in RelayTypes
IsLeaveEv == IsObjectEv /\ TypeOf(ev.message) = "leave"

\* The rooms whose member set holds socket c.
RoomsOf(c) == {r \in DOMAIN rooms : c \in Range(rooms[r])}

\* How many times the last handler sent payload p to socket c.
Deliveries(c, p) == Cardinality({i \in 1..Len(sent) : sent[i].to = c /\ sent[i].payload = p})

\* The sockets the last handler sent something to.
Recipients == {sent[i].to : i \in 1..Len(sent)}

(* ------------------------------------------------------------------ *)
(* C1                                                                  *)
(* ------------------------------------------------------------------ *)

\* C1: when distinct sockets A and B have both joined room R and have not
\* left, closed or joined another room since, and B's transport is open,
\* a draw sent by A is delivered to B exactly once.
C1_DrawDeliveredOnce ==
    \A A \in Conns, B \in Conns, R \in RoomIds :
        ( /\ IsRelayEv /\ TypeOf(ev.message) = "draw" /\ ev.ws = A
          /\ A # B
          /\ joined[A] = R /\ joined[B] = R
          /\ readyState[B] = "OPEN" )
        => Deliveries(B, RelayPayload(ev.message.value)) = 1

(* ------------------------------------------------------------------ *)
(* C2                                                                  *)
(* ------------------------------------------------------------------ *)

\* C2: the payload of a relay-type message is never sent to the socket
\* that sent the message, whatever rooms hold the sender.
C2_NoEcho == IsRelayEv => ev.ws \notin Recipients

\* A relay that reached other members, sent by a socket that is a member
\* of two rooms.
C2_Witness ==
    /\ IsRelayEv
    /\ sent # <<>>
    /\ Cardinality(RoomsOf(ev.ws)) >= 2
    /\ ev.ws \in Members(rooms, currentRoom[ev.ws])

(* ------------------------------------------------------------------ *)
(* C3                                                                  *)
(* ------------------------------------------------------------------ *)

\* C3: a relay-type message sent in room R1 is never delivered to a
\* socket that is a member of another room R2.
C3_RoomIsolation ==
    \A R1 \in RoomIds, R2 \in RoomIds :
        (IsRelayEv /\ currentRoom[ev.ws] = R1 /\ R2 # R1)
        => Recipients \cap Members(rooms, R2) = {}

(* ------------------------------------------------------------------ *)
(* C4                                                                  *)
(* ------------------------------------------------------------------ *)

\* C4: every socket is in the member set of at most one room.
C4_AtMostOneRoom == \A c \in Conns : Cardinality(RoomsOf(c)) <= 1

(* ------------------------------------------------------------------ *)
(* C5                                                                  *)
(* ------------------------------------------------------------------ *)

C6_LeaveRemovesExactly ==
    [][ \A c \in Conns :
          ( /\ ev'.kind = "close" \/ IsLeaveEv'
            /\ ev'.ws = c
            /\ c \in Members(rooms, currentRoom[c]) )
          => /\ c \notin Members(rooms', currentRoom[c])
             /\ Members(rooms, currentRoom[c]) \ {c} \subseteq Members(rooms', currentRoom[c])
      ]_vars

(* ------------------------------------------------------------------ *)
(* C7                                                                  *)
(* ------------------------------------------------------------------ *)

\* C7: a socket whose close event has been handled is a member of no
\* room.
C7_ClosedNotMember == \A c \in Conns : readyState[c] = "CLOSED" => RoomsOf(c) = {}

(* ------------------------------------------------------------------ *)
(* C8                                                                  *)
(* ------------------------------------------------------------------ *)

\* C8: a relay-type message from a socket that has sent leave and no join
\* since produces no delivery.
C8_NoDeliveryAfterLeave ==
    (IsRelayEv /\ everJoined[ev.ws] /\ joined[ev.ws] = Null) => sent = <<>>

(* ------------------------------------------------------------------ *)
(* C9                                                                  *)
(* ------------------------------------------------------------------ *)

\* C9: a relay-type message from a socket that never joined a room
\* produces no delivery and no error, and leaves the registry and the
\* socket's currentRoom and clientId as they were.
C9_RelayBeforeJoin ==
    [][ (IsRelayEv' /\ ~everJoined'[ev'.ws])
          => /\ sent' = <<>>
             /\ ~logged'
             /\ rooms' = rooms
             /\ currentRoom' = currentRoom
             /\ clientId' = clientId
      ]_vars

\* A socket that never joined has sent a relay-type message while another
\* socket is in a room.
C9_Witness ==
    /\ IsRelayEv
    /\ ~everJoined[ev.ws]
    /\ \E c \in Conns : c # ev.ws /\ readyState[c] = "OPEN" /\ RoomsOf(c) # {}

(* ------------------------------------------------------------------ *)
(* C10                                                                 *)
(* ------------------------------------------------------------------ *)

\* C10: when a send to one recipient raises during a broadcast, every
\* other open member of the room except the sender still gets the
\* payload, and the sender gets nothing.
C10_BestEffort ==
    (IsRelayEv /\ logged /\ RelayGuard(rooms, currentRoom[ev.ws]))
    => /\ \A d \in Members(rooms, currentRoom[ev.ws]) \ ({ev.ws} \cup ev.fails) :
              readyState[d] = "OPEN" => Deliveries(d, RelayPayload(ev.message.value)) = 1
       /\ ev.ws \notin Recipients

(* ------------------------------------------------------------------ *)
(* C11                                                                 *)
(* ------------------------------------------------------------------ *)

\* The last handler ran for a join message.
IsJoinEv == IsObjectEv /\ TypeOf(ev.message) = "join"

\* C11: after the 'error' event of a socket whose currentRoom is set, the
\* socket is no longer in that room's member set.
C11_ErrorCleansUp ==
    (ev.kind = "error" /\ currentRoom[ev.ws] # Null)
    => ev.ws \notin Members(rooms, currentRoom[ev.ws])

(* ------------------------------------------------------------------ *)
(* C12                                                                 *)
(* ------------------------------------------------------------------ *)

\* A payload that is not JSON, is not an object, or has no type field.
IsMalformedMsg(message) ==
    \/ ParseThrows(message)
    \/ TypeThrows(message)
    \/ TypeOf(message) = Undefined

IsMalformedEv == ev.kind = "message" /\ IsMalformedMsg(ev.message)

\* What a join message does for the socket that sent it: currentRoom and
\* clientId are the ones of the message, the socket is a member of the
\* room, and the one thing sent is the joined reply to the socket.
JoinTookEffect ==
    LET data == ev.message.value
    IN  /\ currentRoom[ev.ws] = data.roomId
        /\ clientId[ev.ws] = data.clientId
        /\ ev.ws \in Members(rooms, data.roomId)
        /\ sent = <<[to |-> ev.ws, payload |-> [type |-> "joined", roomId |-> data.roomId]]>>

\* C12: a malformed payload changes neither the registry nor any
\* socket's currentRoom, clientId and readyState, and sends nothing; a
\* join the same socket sends next takes effect.
C12_MalformedDropped ==
    [][ /\ IsMalformedEv'
           => /\ rooms' = rooms
              /\ currentRoom' = currentRoom
              /\ clientId' = clientId
              /\ readyState' = readyState
              /\ sent' = <<>>
        /\ (IsMalformedEv /\ IsJoinEv' /\ ev'.ws = ev.ws) => JoinTookEffect'
      ]_vars

\* A member of a room that holds another socket sent a malformed payload
\* and is still open.
C12_Witness ==
    /\ IsMalformedEv
    /\ readyState[ev.ws] = "OPEN"
    /\ Truthy(currentRoom[ev.ws])
    /\ Cardinality(Members(rooms, currentRoom[ev.ws])) >= 2
    /\ ev.ws \in Members(rooms, currentRoom[ev.ws])

(* ------------------------------------------------------------------ *)
(* C13                                                                 *)
(* ------------------------------------------------------------------ *)

\* C13: a join from socket c for room R with client id I sets c's
\* currentRoom to R and clientId to I, makes c a member of R, and sends
\* one joined reply for R to c and nothing to any other socket.
C13_JoinEffect == IsJoinEv => JoinTookEffect

\* A join into a room that already held another socket, by a socket whose
\* clientId had another value before.
C13_Witness ==
    /\ IsJoinEv
    /\ Cardinality(Members(rooms, currentRoom[ev.ws])) >= 2
    /\ Cardinality(RoomsOf(ev.ws)) >= 2
    /\ clientId[ev.ws] = "c2"

(* ------------------------------------------------------------------ *)
(* C14                                                                 *)
(* ------------------------------------------------------------------ *)

\* C14: a join for room R2 from a socket that is a member of another room
\* R1 leaves it a member of R1, makes it a member of R2 and sets its
\* currentRoom to R2.
C14_JoinKeepsOldRoom ==
    [][ \A R1 \in RoomIds :
          ( /\ IsJoinEv'
            /\ R1 # ev'.message.value.roomId
            /\ ev'.ws \in Members(rooms, R1) )
          => /\ ev'.ws \in Members(rooms', R1)
             /\ ev'.ws \in Members(rooms', ev'.message.value.roomId)
             /\ currentRoom'[ev'.ws] = ev'.message.value.roomId
      ]_vars

\* A socket whose current room was "R1" has joined "R2".
C14_Witness ==
    /\ IsJoinEv
    /\ ev.message.value.roomId = "R2"
    /\ ev.ws \in Members(rooms, "R1")
    /\ ev.ws \in Members(rooms, "R2")

(* ------------------------------------------------------------------ *)
(* C15                                                                 *)
(* ------------------------------------------------------------------ *)

\* The fields the protocol lists for each relay type.
ListedFields(type) ==
    IF type = "draw" THEN {"x", "y", "prevX", "prevY", "color", "lineWidth", "drawerId"}
    ELSE IF type = "fill" THEN {"x", "y", "color", "drawerId"}
    ELSE {"drawerId"}

\* C15: every payload a relay case sends holds the type and, of the
\* fields listed for the type, those the inbound message has, each with
\* the inbound value (so the drawerId is the inbound one), and no other
\* field.
C15_PayloadFields ==
    IsRelayEv =>
        \A i \in 1..Len(sent) :
            LET data == ev.message.value
                out == sent[i].payload
            IN  /\ DOMAIN out = {"type"} \cup (ListedFields(data.type) \cap DOMAIN data)
                /\ \A f \in DOMAIN out : out[f] = data[f]

\* A fill without color and with a field that is not listed was relayed,
\* and its drawerId is not the sender's clientId.
C15_Witness ==
    /\ IsRelayEv
    /\ sent # <<>>
    /\ DOMAIN ev.message.value \ ({"type"} \cup ListedFields(ev.message.value.type)) # {}
    /\ "color" \notin DOMAIN ev.message.value
    /\ clientId[ev.ws] # ev.message.value.drawerId
    /\ sent[1].payload.drawerId = ev.message.value.drawerId

(* ------------------------------------------------------------------ *)
(* C16                                                                 *)
(* ------------------------------------------------------------------ *)

\* The types the switch has a case for.
KnownTypes == {"join", "draw", "strokeEnd", "fill", "clear", "undo", "leave"}

\* The last handler ran for an object whose type has no case.
IsUnknownEv == IsObjectEv /\ TypeOf(ev.message) \notin KnownTypes

\* C16: a message whose type is none of join, draw, strokeEnd, fill,
\* clear, undo, leave changes neither the registry nor any socket's
\* currentRoom and clientId, and nothing is sent.
C16_UnknownIgnored ==
    [][ IsUnknownEv'
        => /\ rooms' = rooms
           /\ currentRoom' = currentRoom
           /\ clientId' = clientId
           /\ sent' = <<>>
      ]_vars

\* A member of a room that holds another open socket sent a message of
\* type "chat".
C16_Witness ==
    /\ IsUnknownEv
    /\ TypeOf(ev.message) = "chat"
    /\ Truthy(currentRoom[ev.ws])
    /\ ev.ws \in Members(rooms, currentRoom[ev.ws])
    /\ \E d \in Members(rooms, currentRoom[ev.ws]) : d # ev.ws /\ readyState[d] = "OPEN"

(* ------------------------------------------------------------------ *)
(* C17                                                                 *)
(* ------------------------------------------------------------------ *)

\* C17: whatever the room id, a socket that joined a room and has since
\* sent leave or closed, without joining again, is not a member of that
\* room.
C17_AnyRoomIdCleanedUp ==
    \A c \in Conns :
        (everJoined[c] /\ joined[c] = Null) => c \notin Members(rooms, currentRoom[c])

(* ------------------------------------------------------------------ *)
(* C18                                                                 *)
(* ------------------------------------------------------------------ *)

\* C18: the sockets a relay case sends to are members of the sender's
\* current room whose readyState is OPEN.
C18_RecipientsOpenMembers ==
    IsRelayEv =>
        Recipients \subseteq
            {c \in Members(rooms, currentRoom[ev.ws]) : readyState[c] = "OPEN"}

\* A relay reached a member while the room held a member that is not
\* open and an open socket was outside the room.
C18_Witness ==
    /\ IsRelayEv
    /\ sent # <<>>
    /\ \E d \in Members(rooms, currentRoom[ev.ws]) : readyState[d] # "OPEN"
    /\ \E d \in Conns : readyState[d] = "OPEN" /\ d \notin Members(rooms, currentRoom[ev.ws])

(* ------------------------------------------------------------------ *)
(* C19                                                                 *)
(* ------------------------------------------------------------------ *)

\* C19: a relay case leaves the registry as it was, also when a send
\* raises or a member is not open.
C19_RelayKeepsRegistry ==
    [][ IsRelayEv' => rooms' = rooms ]_vars

\* A relay in which a send raised, in a room with a member that is not
\* open.
C19_Witness ==
    /\ IsRelayEv
    /\ logged
    /\ ev.fails # {}
    /\ \E d \in Members(rooms, currentRoom[ev.ws]) : readyState[d] # "OPEN"

(* ------------------------------------------------------------------ *)
(* C20                                                                 *)
(* ------------------------------------------------------------------ *)

\* The room a join message names, if the event is a join.
JoinRoomOf(e) ==
    IF e.kind = "message" /\ e.message.json = "object" /\ TypeOf(e.message) = "join"
    THEN {e.message.value.roomId}
    ELSE {}

\* C20: an event of socket c leaves every other socket's membership of
\* every room as it was, and the only keys it adds to or takes from the
\* registry are the room its join names and c's own current room.
C20_OnlyOwnMembership ==
    [][ LET c == ev'.ws
        IN  /\ \A d \in Conns \ {c} : \A r \in RoomIds :
                  (d \in Members(rooms', r)) <=> (d \in Members(rooms, r))
            /\ ((DOMAIN rooms' \ DOMAIN rooms) \cup (DOMAIN rooms \ DOMAIN rooms'))
                  \subseteq (JoinRoomOf(ev') \cup {currentRoom[c]})
      ]_vars

\* A socket left or closed and another socket is still a member of the
\* room it was in.
C20_Witness ==
    /\ IsLeaveEv \/ ev.kind = "close"
    /\ Truthy(currentRoom[ev.ws])
    /\ ev.ws \notin Members(rooms, currentRoom[ev.ws])
    /\ Members(rooms, currentRoom[ev.ws]) # {}
    /\ everJoined[ev.ws]

(* ------------------------------------------------------------------ *)
(* C21                                                                 *)
(* ------------------------------------------------------------------ *)

\* How many send() calls of the last handler went to socket c.
SendsTo(c) == Cardinality({i \in 1..Len(sent) : sent[i].to = c})

\* C21: a relay case sends to each socket at most once, and a join for a
\* room the socket is already in leaves the registry as it was.
C21_AtMostOnceRejoin ==
    [][ /\ IsRelayEv' => \A c \in Conns : SendsTo(c)' <= 1
        /\ (IsJoinEv' /\ ev'.ws \in Members(rooms, ev'.message.value.roomId))
           => rooms' = rooms
      ]_vars

\* A relay reached a socket whose latest join was for the room it was
\* already in.
C21_Witness ==
    /\ IsRelayEv
    /\ \E c \in Recipients :
          /\ joinKind[c] = "again"
          /\ SendsTo(c) = 1
          /\ currentRoom[c] = currentRoom[ev.ws]

(* ------------------------------------------------------------------ *)
(* C22                                                                 *)
(* ------------------------------------------------------------------ *)

\* The last handler sent payload p to socket c.
WasSent(c, p) == \E i \in 1..Len(sent) : sent[i] = [to |-> c, payload |-> p]

\* C22: when socket A's relay message m1 is handled and the next event is
\* A's relay message m2, every open socket B that is in a room with A
\* throughout is sent m1 by the first handler and m2 by the second.
C22_InOrder ==
    [][ \A B \in Conns :
          ( /\ IsRelayEv /\ IsRelayEv'
            /\ ev'.ws = ev.ws
            /\ B # ev.ws
            /\ readyState[B] = "OPEN" /\ readyState'[B] = "OPEN"
            /\ \E r \in DOMAIN rooms : {ev.ws, B} \subseteq Members(rooms, r)
            /\ \E r \in DOMAIN rooms' : {ev.ws, B} \subseteq Members(rooms', r) )
          => /\ WasSent(B, RelayPayload(ev.message.value))
             /\ WasSent(B, RelayPayload(ev.message.value))'
      ]_vars

(* ------------------------------------------------------------------ *)
(* C23                                                                 *)
(* ------------------------------------------------------------------ *)

\* C23: a leave leaves the socket open; a socket that joined a room after
\* a leave and is still open is a member of the room and is sent the
\* relay messages of the other members of the room.
C23_UsableAfterLeave ==
    /\ IsLeaveEv => readyState[ev.ws] = "OPEN"
    /\ \A c \in Conns :
          (joinKind[c] = "back" /\ readyState[c] = "OPEN")
          => /\ c \in Members(rooms, joined[c])
             /\ ( /\ IsRelayEv
                  /\ ev.ws # c
                  /\ ev.ws \in Members(rooms, joined[c]) )
                => WasSent(c, RelayPayload(ev.message.value))

(* ------------------------------------------------------------------ *)
(* C24                                                                 *)
(* ------------------------------------------------------------------ *)

\* C24: a leave from a socket that no room holds leaves the registry as
\* it was and does not reach the catch block.
C24_LeaveByNonMember ==
    [][ (IsLeaveEv' /\ RoomsOf(ev'.ws) = {})
        => /\ rooms' = rooms
           /\ ~logged'
      ]_vars

\* A socket that never joined sent leave while a room with members
\* existed.
C24_Witness ==
    /\ IsLeaveEv
    /\ ~everJoined[ev.ws]
    /\ RoomsOf(ev.ws) = {}
    /\ DOMAIN rooms # {}

(* ------------------------------------------------------------------ *)
(* C25                                                                 *)
(* ------------------------------------------------------------------ *)

\* C25: every member of a room has joined and has neither left nor closed
\* since, every socket that joined and has neither left nor closed since
\* is a member of the room of its latest join, and a clear is sent to the
\* open sockets whose latest join was for the sender's room and to no
\* closed socket.
C25_MembersAreLiveJoiners ==
    /\ \A r \in DOMAIN rooms : \A c \in Members(rooms, r) : joined[c] # Null
    /\ \A c \in Conns : joined[c] # Null => c \in Members(rooms, joined[c])
    /\ (IsRelayEv /\ TypeOf(ev.message) = "clear" /\ joined[ev.ws] # Null)
       => /\ \A c \in Recipients : readyState[c] # "CLOSED"
          /\ \A c \in Conns \ {ev.ws} :
                (joined[c] = joined[ev.ws] /\ readyState[c] = "OPEN")
                => WasSent(c, RelayPayload(ev.message.value))

(* ------------------------------------------------------------------ *)
(* C26                                                                 *)
(* ------------------------------------------------------------------ *)

\* Sockets c and d have the same clientId and their latest joins, with no
\* leave or close since, were for the same room.
SameClientSameRoom(c, d) ==
    /\ c # d
    /\ clientId[c] # Null /\ clientId[c] = clientId[d]
    /\ joined[c] # Null /\ joined[c] = joined[d]

\* C26: two sockets that joined the same room with the same clientId are
\* both members of it, a relay message of one is sent to the other while
\* it is open, and the close of one leaves the other a member.
C26_KeyedBySocket ==
    [][ /\ \A c, d \in Conns :
              SameClientSameRoom(c, d)'
              => /\ {c, d} \subseteq Members(rooms', joined'[c])
                 /\ (IsRelayEv' /\ ev'.ws = c /\ readyState'[d] = "OPEN")
                    => WasSent(d, RelayPayload(ev.message.value))'
        /\ \A c, d \in Conns :
              (SameClientSameRoom(c, d) /\ ev'.kind = "close" /\ ev'.ws = c)
              => d \in Members(rooms', joined[d])
      ]_vars

====
